---------------------------- MODULE Spec2Model ----------------------------
(***************************************************************************)
(* Model of the Spectral Lie voice-detection API: the fast gate            *)
(* (part3_api/app/fast_gate.py), the cascade detect_voice with its         *)
(* fallback synthesizer (part3_api/app/orchestrator.py) and the endpoint   *)
(* detect_voice_endpoint with its response cache and its 12 s deadline     *)
(* (part3_api/app/routes.py).                                              *)
(*                                                                         *)
(* Units.  Python floats are modelled as scaled integers:                  *)
(*   jitter, shimmer, zcr           1e-3                                   *)
(*   rms_variance                   1e-4                                   *)
(*   silence_ratio                  1e-2                                   *)
(*   hnr                            0.1 dB                                 *)
(*   durations                      0.1 s                                  *)
(*   samples                        1e-3                                   *)
(*   rms of samples                 1e-4 (nearest)                         *)
(*   rms_variance of samples        1e-6 (exact, roots kept as roots)      *)
(*   confidence, decision_threshold 1e-3 (nearest; the unrounded sums of   *)
(*                                  the source differ by one ulp at most)  *)
(* A Python value read from a dict is a record [kind, val]: a number, the  *)
(* float nan, a non-numeric object (None, a str), or an absent key.        *)
(*                                                                         *)
(* Specifications.                                                         *)
(*   Spec         the endpoint serving requests one after the other, with  *)
(*                the cache, the deadline timer and the cascade            *)
(*   SpecCascade  detect_voice called on its own, over the whole grid of   *)
(*                acoustic bundles                                         *)
(*   SpecGate     fast_gate.check over the whole grid of FastFeatures      *)
(*   SpecCache    the endpoint with time passing between requests, so that *)
(*                cache entries age and expire (two audios, two bundles)   *)
(*   SpecPair     two requests in flight at once, their steps interleaved  *)
(*                by Switch, both cascades ending within the deadline      *)
(*   SpecDecode   fast_gate.decode_audio_fast over a grid of byte buffers  *)
(*   SpecFeatures fast_gate.compute_features_fast over short arrays of     *)
(*                samples (thousandths), its quotients kept exact          *)
(*   SpecPreload  start-up: preload_models and the readiness probe         *)
(* An exception that leaves detect_voice is the position "Raised".         *)
(* An await of the endpoint is two steps: what the awaited party does      *)
(* (Redis serves the GET or the SET, the timer of wait_for goes off) and,  *)
(* later, the coroutine resuming with the outcome (redis_reply,            *)
(* timer_fired, fut_done); other steps may fall between the two.           *)
(***************************************************************************)
EXTENDS Integers, FiniteSets, Sequences, TLC

VARIABLES
    backend,         \* orchestrator.part1 and orchestrator.part2 are both imported
    redis_conn,      \* rate_limiter.redis_conn is set
    cache,           \* the response cache: key (audio) -> entry
    served,          \* number of requests received so far (the request_id source)
    epc,             \* position of detect_voice_endpoint for the current request
    req,             \* the current request's audio
    response,        \* what the caller received for the current request
    metric,          \* label of the metrics counter the current request incremented
    elapsed,         \* whole seconds asyncio.wait_for has been waiting
    cpc,             \* position of detect_voice (the threadpool job)
    gate_result,     \* detect_voice local gate_result
    fast_gate_hint,  \* detect_voice local fast_gate_hint
    features,        \* detect_voice local features
    fb_call,         \* arguments of the pending/last _create_fallback_response call
    result,          \* return value of detect_voice
    extract_calls,   \* calls of part1.extract_features in the current request
    infer_calls,     \* calls of part2.infer in the current request
    request_id,      \* request_id of the current request
    cached_res,      \* what the cache read gave the current request
    redis_reply,     \* Redis's answer to the current request's GET or SET,
                     \* until the coroutine resumes and reads it
    timer_fired,     \* the timer of asyncio.wait_for has gone off
    fut_done,        \* the job's outcome had reached the event loop when the
                     \* timer went off: wait_for resumes to fut.done()
    peer,            \* the locals of the other request in flight (SpecPair)
    wav,             \* the bytes handed to decode_audio_fast (SpecDecode)
    decoded,         \* what decode_audio_fast returned for wav
    USE_DEEP_FEATURES, \* part1.config.USE_DEEP_FEATURES (SpecPreload)
    part1_model,     \* part1's deep model is loaded
    _MODEL,          \* part2.utils._MODEL is not None
    _CALIBRATOR,     \* part2.utils._CALIBRATOR is not None
    MODEL_LOADED,    \* orchestrator.MODEL_LOADED
    preloads,        \* runs of preload_models so far
    probe,           \* status of the last answer of GET /ready (0: none yet)
    samples,         \* the samples handed to compute_features_fast (SpecFeatures)
    sample_rate,     \* the sample rate handed to compute_features_fast
    fast_features    \* what compute_features_fast returned for them

vars == <<backend, redis_conn, cache, served, epc, req, response, metric, elapsed,
          cpc, gate_result, fast_gate_hint, features, fb_call, result,
          extract_calls, infer_calls, request_id, cached_res, redis_reply,
          timer_fired, fut_done, peer, wav,
          decoded, USE_DEEP_FEATURES, part1_model, _MODEL, _CALIBRATOR,
          MODEL_LOADED, preloads, probe, samples, sample_rate, fast_features>>

endpointVars == <<redis_conn, cache, served, epc, req, response, metric, elapsed,
                  request_id, cached_res, redis_reply, timer_fired,
                  fut_done>>

\* what is in flight for the current request at an await
inflight == <<redis_reply, timer_fired, fut_done>>

\* the arguments and the return value of compute_features_fast
computing == <<samples, sample_rate, fast_features>>

\* what preload_models and the readiness probe read and write
readiness == <<USE_DEEP_FEATURES, part1_model, _MODEL, _CALIBRATOR,
               MODEL_LOADED, preloads, probe>>

\* what no stage of a request writes: the imported backends, the other
\* request's locals, the fast decoder's input and output and the readiness
\* state
standing == <<backend, peer, wav, decoded, readiness, computing>>

-----------------------------------------------------------------------------
(* Python values *)

Num(n) == [kind |-> "num", val |-> n]
NaN == [kind |-> "nan", val |-> 0]
PyNone == [kind |-> "none", val |-> 0]
Absent == [kind |-> "absent", val |-> 0]

\* x < c and x > c for a float c: False for nan, TypeError for a non-number
Lt(x, c) == x.kind = "num" /\ x.val < c
Gt(x, c) == x.kind = "num" /\ x.val > c
Comparable(x) == x.kind \in {"num", "nan"}

\* dict.get(key, default)
Get(v, default) == IF v.kind = "absent" THEN default ELSE v

Min(a, b) == IF a < b THEN a ELSE b
Max(a, b) == IF a > b THEN a ELSE b

-----------------------------------------------------------------------------
(* fast_gate.py *)

DURATION_MAX == 50
SILENCE_RATIO_MAX == 60
ZCR_MIN == 20
RMS_VARIANCE_MIN == 10
AI_RMS_VARIANCE_MAX == 5
AI_ZCR_MAX == 15
AI_SILENCE_RATIO_MAX == 15

NoFastFeatures ==
    [duration |-> 0, rms_variance |-> NaN, zcr |-> NaN, silence_ratio |-> NaN]

is_likely_human(f) ==
    /\ Gt(f.rms_variance, RMS_VARIANCE_MIN)
    /\ Gt(f.zcr, ZCR_MIN)
    /\ Lt(f.silence_ratio, SILENCE_RATIO_MAX)

is_likely_ai(f) ==
    /\ Lt(f.rms_variance, AI_RMS_VARIANCE_MAX)
    /\ Lt(f.zcr, AI_ZCR_MAX)
    /\ Lt(f.silence_ratio, AI_SILENCE_RATIO_MAX)

\* mutant: the base confidence of the post-extraction gate (0.70) used here
human_confidence_base70(f) ==
    Min(900, 700 + (IF Gt(f.zcr, 50) THEN 50 ELSE 0)
                 + (IF Gt(f.rms_variance, 50) THEN 50 ELSE 0)
                 + (IF Lt(f.silence_ratio, 30) THEN 50 ELSE 0))

human_confidence(f) ==
    Min(900, 750 + (IF Gt(f.zcr, 50) THEN 50 ELSE 0)
                 + (IF Gt(f.rms_variance, 50) THEN 50 ELSE 0)
                 + (IF Lt(f.silence_ratio, 30) THEN 50 ELSE 0))

\* mutant: the silence step of the AI rule left out
ai_confidence_two_steps(f) ==
    Min(900, 750 + (IF Lt(f.rms_variance, 2) THEN 50 ELSE 0)
                 + (IF Lt(f.zcr, 10) THEN 50 ELSE 0))

ai_confidence(f) ==
    Min(900, 750 + (IF Lt(f.rms_variance, 2) THEN 50 ELSE 0)
                 + (IF Lt(f.zcr, 10) THEN 50 ELSE 0)
                 + (IF Lt(f.silence_ratio, 10) THEN 50 ELSE 0))

NoVerdict ==
    [kind |-> "none", is_human |-> FALSE, confidence |-> 0,
     features |-> NoFastFeatures]

Verdict(h, c, f) ==
    [kind |-> "verdict", is_human |-> h, confidence |-> c, features |-> f]

\* the bytes of audio_base64 as the decoder reads them: whether
\* base64.b64decode accepts the text, len(audio_bytes), whether
\* audio_bytes[:4] == b'RIFF', and the three header fields
WavBytes(ok, n, magic, rate, bits, channels) ==
    [b64_ok |-> ok, len |-> n, riff |-> magic, sample_rate |-> rate,
     bits_per_sample |-> bits, num_channels |-> channels]

WAV_HEADER_SIZE == 44

Unsupported == [kind |-> "none", n |-> 0, sample_rate |-> 0]
Raises == [kind |-> "raise", n |-> 0, sample_rate |-> 0]
Samples(n, rate) == [kind |-> "samples", n |-> n, sample_rate |-> rate]
NotDecoded == [kind |-> "pending", n |-> 0, sample_rate |-> 0]

\* np.frombuffer(data_bytes, dtype): the number of items, or ValueError
\* when the buffer is not a whole number of items
frombuffer(nbytes, itemsize) ==
    IF nbytes % itemsize # 0 THEN Raises ELSE Samples(nbytes \div itemsize, 0)

\* len(samples[::2])
every_other(n) == (n + 1) \div 2

\* mutant: 32-bit PCM decoded as well
_decode_wav_try_accepts_32bit(w) ==
    IF w.len < WAV_HEADER_SIZE THEN Unsupported
    ELSE LET data == w.len - WAV_HEADER_SIZE
             arr == IF w.bits_per_sample = 16 THEN frombuffer(data, 2)
                    ELSE IF w.bits_per_sample = 8 THEN frombuffer(data, 1)
                    ELSE IF w.bits_per_sample = 32 THEN frombuffer(data, 4)
                    ELSE Unsupported
         IN  IF arr.kind # "samples" THEN arr
             ELSE IF w.num_channels = 2
                  THEN Samples(every_other(arr.n), w.sample_rate)
                  ELSE Samples(arr.n, w.sample_rate)

\* lines 47-76: the try block of _decode_wav
_decode_wav_try(w) ==
    IF w.len < WAV_HEADER_SIZE THEN Unsupported
    ELSE LET data == w.len - WAV_HEADER_SIZE
             arr == IF w.bits_per_sample = 16 THEN frombuffer(data, 2)
                    ELSE IF w.bits_per_sample = 8 THEN frombuffer(data, 1)
                    ELSE Unsupported
         IN  IF arr.kind # "samples" THEN arr
             ELSE IF w.num_channels = 2
                  THEN Samples(every_other(arr.n), w.sample_rate)
                  ELSE Samples(arr.n, w.sample_rate)

\* lines 44-79: except Exception: return None
_decode_wav(w) ==
    IF _decode_wav_try(w).kind = "raise" THEN Unsupported ELSE _decode_wav_try(w)

\* lines 30-37: the try block of decode_audio_fast
decode_audio_fast_try(w) ==
    IF ~w.b64_ok THEN Raises
    ELSE IF w.riff THEN _decode_wav(w)
    ELSE Unsupported

\* lines 24-41: except Exception: return None
decode_audio_fast(w) ==
    IF decode_audio_fast_try(w).kind = "raise" THEN Unsupported
    ELSE decode_audio_fast_try(w)

\* a float that is the quotient of two integers, kept as the quotient
Quotient(a, b) == [num |-> a, den |-> b]
SameQuotient(x, y) == x.num * y.den = y.num * x.den

\* np.sign and abs of one sample
sign(x) == IF x > 0 THEN 1 ELSE IF x < 0 THEN -1 ELSE 0
Abs(x) == IF x < 0 THEN -x ELSE x

\* line 103: np.sum(np.abs(np.diff(np.sign(samples))))
RECURSIVE sum_abs_diff_sign(_)
sum_abs_diff_sign(xs) ==
    IF Len(xs) < 2 THEN 0
    ELSE Abs(sign(xs[2]) - sign(xs[1])) + sum_abs_diff_sign(Tail(xs))

\* silence_threshold = 0.01, in thousandths
SILENCE_THRESHOLD == 10

\* line 108: np.sum(np.abs(samples) < silence_threshold)
count_silent(xs) ==
    Cardinality({i \in DOMAIN xs : Abs(xs[i]) < SILENCE_THRESHOLD})

NotComputed == [kind |-> "pending"]

\* the largest r in lo..hi with r * r <= n
RECURSIVE isqrt_in(_, _, _)
isqrt_in(n, lo, hi) ==
    IF lo = hi THEN lo
    ELSE LET mid == (lo + hi + 1) \div 2 IN
         IF mid * mid <= n THEN isqrt_in(n, mid, hi)
         ELSE isqrt_in(n, lo, mid - 1)

\* the integer part of the square root of n
isqrt(n) == isqrt_in(n, 0, IF n < 46340 THEN n ELSE 46340)

\* np.sum(xs ** 2), in millionths
RECURSIVE sum_sq(_)
sum_sq(xs) == IF xs = <<>> THEN 0 ELSE xs[1] * xs[1] + sum_sq(Tail(xs))

\* line 89: np.sqrt(np.mean(xs ** 2)) of a non-empty array, in units of
\* 1e-4, to the nearest: the nearest integer to the root of q is
\* (isqrt(4 * q) + 1) \div 2
rms_of(xs) == (isqrt((400 * sum_sq(xs)) \div Len(xs)) + 1) \div 2

\* line 96: samples[:n_chunks * chunk_size].reshape(-1, chunk_size)
chunks_of(xs, chunk_size) ==
    [i \in 1..(Len(xs) \div chunk_size) |->
        SubSeq(xs, (i - 1) * chunk_size + 1, i * chunk_size)]

RECURSIVE sum_of(_)
sum_of(rs) == IF rs = <<>> THEN 0 ELSE rs[1] + sum_of(Tail(rs))

\* a float of the form (num - (whole + the sum of the square roots of the
\* integers in roots) ^ 2) / den, kept in that form
RootForm(n, w, rs, d) == [num |-> n, whole |-> w, roots |-> rs, den |-> d]

\* lines 97-98: np.var(chunk_rms), where chunk_rms[i] is the square root of
\* sums[i] / chunk_size and sums[i] is the sum of the squares of chunk i.
\* The variance is the mean of the squares less the square of the mean:
\*   (k * (sums[1] + .. + sums[k]) - (sqrt(sums[1]) + .. + sqrt(sums[k])) ^ 2)
\*       / (k * k * chunk_size)
\* in millionths.  The roots that are integers are added up in whole, the
\* others are kept as roots: the value is exact
var_of(sums, chunk_size) ==
    LET k == Len(sums)
        squares == SelectSeq(sums, LAMBDA s : isqrt(s) * isqrt(s) = s)
        others == SelectSeq(sums, LAMBDA s : isqrt(s) * isqrt(s) # s)
    IN RootForm(k * sum_of(sums),
                sum_of([i \in DOMAIN squares |-> isqrt(squares[i])]),
                others,
                k * k * chunk_size)

\* lines 82-116 for a non-empty array of samples (thousandths).  Line 87
\* divides by sample_rate and line 95 by chunk_size = sample_rate // 10,
\* which is 0 for the rates 1 to 9: both raise ZeroDivisionError.
\* zero_crossings is sum / 2 and zcr is zero_crossings / len(samples)
compute_features_fast(xs, rate) ==
    LET chunk_size == rate \div 10
        chunk_sums == [i \in DOMAIN chunks_of(xs, chunk_size) |->
                          sum_sq(chunks_of(xs, chunk_size)[i])]
    IN
    IF rate = 0 THEN [kind |-> "raise"]
    ELSE IF Len(xs) > chunk_size /\ chunk_size = 0 THEN [kind |-> "raise"]
    ELSE [kind |-> "features",
          duration |-> Quotient(Len(xs), rate),
          rms |-> rms_of(xs),
          rms_variance |-> IF Len(xs) > chunk_size
                           THEN var_of(chunk_sums, chunk_size)
                           ELSE RootForm(0, 0, <<>>, 1),
          zcr |-> Quotient(sum_abs_diff_sign(xs), 2 * Len(xs)),
          silence_ratio |-> Quotient(count_silent(xs), Len(xs))]

\* mutant: Step 3 (the duration limit) left out
check_without_duration_limit(audio) ==
    LET f == audio.fast.f IN
    IF audio.fast.kind = "undecodable" THEN NoVerdict
    ELSE IF audio.fast.kind = "raises" THEN [NoVerdict EXCEPT !.kind = "raise"]
    ELSE IF is_likely_human(f) THEN Verdict(TRUE, human_confidence(f), f)
    ELSE IF is_likely_ai(f) THEN Verdict(FALSE, ai_confidence(f), f)
    ELSE NoVerdict

\* check(audio_base64).  audio.fast is what decode_audio_fast and
\* compute_features_fast give for the audio: "undecodable" (decode returned
\* None), "raises" (compute_features_fast raised, e.g. sample_rate 0) or the
\* FastFeatures.
check(audio) ==
    LET f == audio.fast.f IN
    IF audio.fast.kind = "undecodable" THEN NoVerdict
    ELSE IF audio.fast.kind = "raises" THEN [NoVerdict EXCEPT !.kind = "raise"]
    ELSE IF f.duration > DURATION_MAX THEN NoVerdict
    ELSE IF is_likely_human(f) THEN Verdict(TRUE, human_confidence(f), f)
    ELSE IF is_likely_ai(f) THEN Verdict(FALSE, ai_confidence(f), f)
    ELSE NoVerdict


-----------------------------------------------------------------------------
(* orchestrator.py: results *)

NoExplanation ==
    [template |-> "", reason |-> "", v1 |-> Absent, v2 |-> Absent, v3 |-> Absent]

Explanation(t, why, a, b, c) ==
    [template |-> t, reason |-> why, v1 |-> a, v2 |-> b, v3 |-> c]

NoResult ==
    [classification |-> "", confidence |-> 0, explanation |-> NoExplanation,
     model_version |-> "", decision_threshold |-> 0]

Result(c, conf, expl, version) ==
    [classification |-> c, confidence |-> conf, explanation |-> expl,
     model_version |-> version, decision_threshold |-> 500]

\* mutant: the fast gate's result tagged as the acoustic gate's
FastGateResultAcousticTag(v) ==
    IF v.is_human
    THEN Result("Human", v.confidence,
                Explanation("fast_gate_human", "", v.features.zcr,
                            v.features.silence_ratio, Absent),
                "v1.2-acoustic-gate")
    ELSE Result("AI-Generated", v.confidence,
                Explanation("fast_gate_ai", "", v.features.zcr,
                            v.features.rms_variance, Absent),
                "v1.2-acoustic-gate")

\* the two return statements of STEP 1; round(confidence, 3) keeps thousandths
FastGateResult(v) ==
    IF v.is_human
    THEN Result("Human", v.confidence,
                Explanation("fast_gate_human", "", v.features.zcr,
                            v.features.silence_ratio, Absent),
                "v1.2-fast-gate")
    ELSE Result("AI-Generated", v.confidence,
                Explanation("fast_gate_ai", "", v.features.zcr,
                            v.features.rms_variance, Absent),
                "v1.2-fast-gate")

-----------------------------------------------------------------------------
(* orchestrator.py: the acoustic bundle and the post-extraction gate *)

NoFeatures ==
    [kind |-> "none", has_acoustic |-> FALSE,
     jitter_local |-> Absent, jitter |-> Absent,
     shimmer_local |-> Absent, shimmer |-> Absent, hnr |-> Absent]

Bundle(has, jl, j, sl, s, h) ==
    [kind |-> "bundle", has_acoustic |-> has,
     jitter_local |-> jl, jitter |-> j,
     shimmer_local |-> sl, shimmer |-> s, hnr |-> h]

\* features.acoustic_features if hasattr(features, 'acoustic_features') else {}
post_acoustic(ft) == IF ft.has_acoustic THEN ft ELSE NoFeatures

post_jitter(ft) ==
    Get(post_acoustic(ft).jitter_local, Get(post_acoustic(ft).jitter, Num(0)))
post_shimmer(ft) ==
    Get(post_acoustic(ft).shimmer_local, Get(post_acoustic(ft).shimmer, Num(0)))
post_hnr(ft) == Get(post_acoustic(ft).hnr, Num(200))

post_ai_score(j, s, h) ==
    (IF Lt(j, 5) THEN 1 ELSE 0) + (IF Lt(s, 20) THEN 1 ELSE 0)
        + (IF Gt(h, 280) THEN 1 ELSE 0)

\* mutant: the HNR cut-off of the human score raised above the AI score's
post_human_score_hnr_overlap(j, s, h) ==
    (IF Gt(j, 10) THEN 1 ELSE 0) + (IF Gt(s, 30) THEN 1 ELSE 0)
        + (IF Lt(h, 290) THEN 1 ELSE 0)

post_human_score(j, s, h) ==
    (IF Gt(j, 10) THEN 1 ELSE 0) + (IF Gt(s, 30) THEN 1 ELSE 0)
        + (IF Lt(h, 250) THEN 1 ELSE 0)

\* mutant: the tie-break "and human_score == 0" dropped
post_gate_is_ai_no_tiebreak(ai_score, human_score) == ai_score >= 2

post_gate_is_ai(ai_score, human_score) == ai_score >= 2 /\ human_score = 0

\* mutant: the Human verdict made to need ai_score == 0 as well
post_gate_is_human_symmetric(ai_score, human_score) ==
    human_score >= 2 /\ ai_score = 0

post_gate_is_human(ai_score, human_score) == human_score >= 2

\* lines 103-150: "raise" (a comparison raised TypeError), a conclusive
\* "verdict", or "inconclusive"
PostExtractionGate(ft) ==
    LET j == post_jitter(ft)
        s == post_shimmer(ft)
        h == post_hnr(ft)
        ai == post_ai_score(j, s, h)
        hu == post_human_score(j, s, h)
    IN  IF ~(Comparable(j) /\ Comparable(s) /\ Comparable(h))
        THEN [kind |-> "raise", result |-> NoResult,
              ai_score |-> 0, human_score |-> 0]
        ELSE IF post_gate_is_ai(ai, hu)
        THEN [kind |-> "verdict",
              result |-> Result("AI-Generated", Min(900, 700 + ai * 100),
                                Explanation("post_gate_ai", "", j, s, h),
                                "v1.2-acoustic-gate"),
              ai_score |-> ai, human_score |-> hu]
        ELSE IF post_gate_is_human(ai, hu)
        THEN [kind |-> "verdict",
              result |-> Result("Human", Min(900, 700 + hu * 100),
                                Explanation("post_gate_human", "", j, s, h),
                                "v1.2-acoustic-gate"),
              ai_score |-> ai, human_score |-> hu]
        ELSE [kind |-> "inconclusive", result |-> NoResult,
              ai_score |-> ai, human_score |-> hu]

-----------------------------------------------------------------------------
(* orchestrator.py: _create_fallback_response *)

\* features.acoustic_features if features and hasattr(...) else {}
fb_acoustic(ft) ==
    IF ft.kind = "bundle" /\ ft.has_acoustic THEN ft ELSE NoFeatures

fb_jitter(ft) ==
    Get(fb_acoustic(ft).jitter_local, Get(fb_acoustic(ft).jitter, Num(20)))
fb_shimmer(ft) ==
    Get(fb_acoustic(ft).shimmer_local, Get(fb_acoustic(ft).shimmer, Num(40)))
fb_hnr(ft) == Get(fb_acoustic(ft).hnr, Num(200))

fb_ai_score(j, s, h) ==
    (IF Lt(j, 8) THEN 1 ELSE 0) + (IF Lt(s, 25) THEN 1 ELSE 0)
        + (IF Gt(h, 260) THEN 1 ELSE 0)

fb_human_score(j, s, h) ==
    (IF Gt(j, 15) THEN 1 ELSE 0) + (IF Gt(s, 40) THEN 1 ELSE 0)
        + (IF Lt(h, 240) THEN 1 ELSE 0)

\* mutant: the neutral base 0.5 without the lower clamp
fb_human_confidence_base50(human_score) == Min(850, 500 + human_score * 100)

\* min(0.85, max(0.55, 0.55 + human_score * 0.1))
fb_human_confidence(human_score) == Min(850, Max(550, 550 + human_score * 100))

_create_fallback_response(ft, reason, hint) ==
    LET j == fb_jitter(ft)
        s == fb_shimmer(ft)
        h == fb_hnr(ft)
        ai == fb_ai_score(j, s, h)
        hu == fb_human_score(j, s, h)
    IN  IF hint # "None" /\ hint = "AI"
        THEN [kind |-> "return",
              result |-> Result("AI-Generated", 650,
                                Explanation("fallback_hint_ai", reason,
                                            Absent, Absent, Absent),
                                "v1.2-fallback-ai")]
        ELSE IF ~(Comparable(j) /\ Comparable(s) /\ Comparable(h))
        THEN [kind |-> "raise", result |-> NoResult]
        ELSE IF ai >= 2 /\ hu = 0
        THEN [kind |-> "return",
              result |-> Result("AI-Generated", 550 + ai * 100,
                                Explanation("fallback_ai", reason, j, s, h),
                                "v1.2-fallback-ai")]
        ELSE [kind |-> "return",
              result |-> Result("Human", fb_human_confidence(hu),
                                Explanation("fallback_human", reason, j, s, h),
                                "v1.2-fallback-human")]

NoCall == [made |-> FALSE, features |-> NoFeatures, reason |-> "", hint |-> "None"]

FallbackCall(ft, why, hint) ==
    [made |-> TRUE, features |-> ft, reason |-> why, hint |-> hint]


-----------------------------------------------------------------------------
(* Inputs: audio clips, extractor and inference outcomes *)

MaxRequests == 2

FastFeatures(d, v, z, sil) ==
    [duration |-> d, rms_variance |-> v, zcr |-> z, silence_ratio |-> sil]

\* a request's audioBase64: its length, what the wave module reports as
\* nframes / framerate (Absent: not a WAV file, PyNone: the division raised),
\* and what the fast decoder and feature computer give for it
Audio(id, size, wd, fk, ff) ==
    [id |-> id, size |-> size, wav_duration |-> wd,
     fast |-> [kind |-> fk, f |-> ff]]

WavAudio(id, d, v, z, sil) ==
    Audio(id, 1000, Num(d), "features", FastFeatures(d, Num(v), Num(z), Num(sil)))

EndpointAudios ==
    { Audio("mp3", 1000, Absent, "undecodable", NoFastFeatures),
      Audio("wav_rate0", 1000, PyNone, "raises", NoFastFeatures),
      WavAudio("wav_human", 20, 100, 200, 10),
      WavAudio("wav_ai", 20, 1, 5, 5),
      WavAudio("wav_plain", 10, 7, 18, 40),
      WavAudio("wav_long", 300, 100, 200, 10),
      WavAudio("wav_short", 9, 100, 200, 10),
      WavAudio("wav_toolong", 301, 100, 200, 10),
      Audio("huge", 2097153, Absent, "undecodable", NoFastFeatures) }

AudioIds == {a.id : a \in EndpointAudios}

\* detect_voice called on its own: the clips that pass or bypass each gate rule
CascadeAudios ==
    {a \in EndpointAudios :
        a.id \in {"mp3", "wav_rate0", "wav_human", "wav_ai", "wav_plain", "wav_long"}}

RmsVarianceVals == {Num(n) : n \in {0, 1, 2, 4, 5, 7, 10, 11, 50, 51, 100}}
ZcrVals == {NaN} \cup {Num(n) : n \in {0, 9, 10, 14, 15, 20, 21, 50, 51, 200}}
SilenceVals == {NaN} \cup {Num(n) : n \in {0, 9, 10, 14, 15, 29, 30, 59, 60, 90}}
DurationVals == {0, 20, 50, 51}

GateAudios ==
    {Audio("grid", 1000, Num(d), "features", FastFeatures(d, v, z, sil)) :
        d \in DurationVals, v \in RmsVarianceVals, z \in ZcrVals, sil \in SilenceVals}

JitterVals == {Num(n) : n \in {2, 5, 6, 8, 10, 11, 15, 16}}
ShimmerVals == {Num(n) : n \in {10, 20, 22, 25, 30, 31, 40, 41}}
HnrVals == {Num(n) : n \in {200, 240, 245, 250, 260, 261, 280, 281, 300}}
Special == {Absent, PyNone, NaN}

\* what part1.extract_features can return: an object without the attribute
\* acoustic_features, or one whose dict holds any of the five keys
AllBundles ==
    {Bundle(FALSE, Absent, Absent, Absent, Absent, Absent)} \cup
    {Bundle(TRUE, jl, j, sl, s, h) :
        jl \in JitterVals \cup Special, j \in {Absent, Num(16)},
        sl \in ShimmerVals \cup Special, s \in {Absent, Num(41)},
        h \in HnrVals \cup Special}

EndpointBundles ==
    { Bundle(FALSE, Absent, Absent, Absent, Absent, Absent),
      Bundle(TRUE, Num(2), Absent, Num(10), Absent, Num(300)),
      Bundle(TRUE, Absent, Num(20), Absent, Num(45), Num(200)),
      Bundle(TRUE, Num(6), Absent, Num(22), Absent, Num(270)),
      Bundle(TRUE, Num(9), Absent, NaN, Absent, Absent),
      Bundle(TRUE, PyNone, Absent, Num(22), Absent, Num(270)) }

\* the texts handed to the fast decoder: not base64, or bytes of any length
\* around the header size with any header
NoBytes == WavBytes(FALSE, 0, FALSE, 0, 0, 0)

WavLens == {44, 45, 46, 47, 48}
SampleRates == {0, 1, 8000, 16000}
BitDepths == {0, 8, 16, 24, 32}
ChannelCounts == {0, 1, 2}

WavInputs ==
    {NoBytes} \cup
    {WavBytes(TRUE, n, FALSE, 0, 0, 0) : n \in {0, 3}} \cup
    {WavBytes(TRUE, n, magic, 0, 0, 0) : n \in {4, 12, 43}, magic \in BOOLEAN} \cup
    {WavBytes(TRUE, n, magic, rate, bits, channels) :
        n \in WavLens, magic \in BOOLEAN, rate \in SampleRates,
        bits \in BitDepths, channels \in ChannelCounts}

\* the clips and bundles of the runs that follow an entry of the cache
\* through its 300 seconds
CacheAudios == {a \in EndpointAudios : a.id \in {"wav_human", "wav_plain"}}

CacheBundles ==
    { Bundle(TRUE, Num(6), Absent, Num(22), Absent, Num(270)),
      Bundle(TRUE, PyNone, Absent, Num(22), Absent, Num(270)) }

\* the clips and bundles of the runs with two requests in flight
PairAudios == {a \in EndpointAudios : a.id \in {"wav_human", "wav_plain"}}

PairBundles ==
    { Bundle(TRUE, Num(6), Absent, Num(22), Absent, Num(270)),
      Bundle(TRUE, PyNone, Absent, Num(22), Absent, Num(270)) }

ExtractOutcomes(B) ==
    {[kind |-> "raise", bundle |-> NoFeatures]} \cup
    {[kind |-> "return", bundle |-> b] : b \in B}

\* what part2.infer can return
InferResults ==
    { Result("Human", 620, Explanation("part2", "", Absent, Absent, Absent), "part2"),
      Result("AI-Generated", 930, Explanation("part2", "", Absent, Absent, Absent),
             "part2") }

InferOutcomes ==
    {[kind |-> "raise", result |-> NoResult]} \cup
    {[kind |-> "return", result |-> r] : r \in InferResults}


-----------------------------------------------------------------------------
(* routes.py: responses, validation, cache entries *)

MAX_AUDIO_SIZE_BYTES == 2097152
MIN_DURATION_SECONDS == 10
MAX_DURATION_SECONDS == 300
TIMEOUT_SECONDS == 12

NoBody ==
    [classification |-> "", confidence |-> 0, explanation |-> NoExplanation,
     model_version |-> "", request_id |-> 0]

DetectResponse(c, conf, expl, version, rid) ==
    [classification |-> c, confidence |-> conf, explanation |-> expl,
     model_version |-> version, request_id |-> rid]

NoResponse == [status |-> 0, body |-> NoBody, detail |-> ""]
Ok(body) == [status |-> 200, body |-> body, detail |-> ""]
HTTPException(code, detail) == [status |-> code, body |-> NoBody, detail |-> detail]

\* mutant: model_version left to the schema default
TimeoutResponseDefaultVersion(rid) ==
    DetectResponse("Human", 600,
                   Explanation("timeout", "", Absent, Absent, Absent),
                   "v1.0", rid)

\* mutant: the label written in lower case
TimeoutResponseLowerCase(rid) ==
    DetectResponse("human", 600,
                   Explanation("timeout", "", Absent, Absent, Absent),
                   "v1.1-timeout-safe", rid)

\* lines 126-132
TimeoutResponse(rid) ==
    DetectResponse("Human", 600,
                   Explanation("timeout", "", Absent, Absent, Absent),
                   "v1.1-timeout-safe", rid)

\* lines 66-72 and 149-155: the four fields read from the result dict
ResponseOf(r, rid) ==
    DetectResponse(r.classification, r.confidence, r.explanation,
                   r.model_version, rid)

\* mutant: the 400 swallowed by the except of line 107
ValidationDurationSwallowed(a) ==
    IF a.size > MAX_AUDIO_SIZE_BYTES THEN 413 ELSE 0

\* lines 82-111: 413, 400 or 0 (the request passes)
Validation(a) ==
    IF a.size > MAX_AUDIO_SIZE_BYTES THEN 413
    ELSE IF a.wav_duration.kind = "num"
            /\ (a.wav_duration.val < MIN_DURATION_SECONDS
                \/ a.wav_duration.val > MAX_DURATION_SECONDS)
         THEN 400
    ELSE 0

CACHE_TTL_SECONDS == 300

\* mutant: the float written with one decimal ("%.1f")
float_repr_1f(n) == <<n \div 1000, (n % 1000) \div 100>>

\* float.__repr__ as json.dumps writes a float in [0, 10): the integer digit
\* and the shortest run of decimals that reads back as the same float
float_repr(n) ==
    LET f == n % 1000 IN
    <<n \div 1000>> \o
        (IF f % 100 = 0 THEN <<f \div 100>>
         ELSE IF f % 10 = 0 THEN <<f \div 100, (f \div 10) % 10>>
         ELSE <<f \div 100, (f \div 10) % 10, f % 10>>)

\* float(text) as json.loads reads the digits back
float_parse(d) ==
    d[1] * 1000 + d[2] * 100
        + (IF Len(d) >= 3 THEN d[3] * 10 ELSE 0)
        + (IF Len(d) >= 4 THEN d[4] ELSE 0)

\* line 145: json.dumps(result), the text stored under the key; a str is
\* written between quotes and read back as the same str
json_dumps(r) ==
    [classification |-> r.classification,
     confidence |-> float_repr(r.confidence),
     explanation |-> r.explanation,
     model_version |-> r.model_version,
     decision_threshold |-> float_repr(r.decision_threshold)]

\* line 63: json.loads(cached_res)
json_loads(t) ==
    [classification |-> t.classification,
     confidence |-> float_parse(t.confidence),
     explanation |-> t.explanation,
     model_version |-> t.model_version,
     decision_threshold |-> float_parse(t.decision_threshold)]

\* a key of the cache: absent, or the text set with ex=300 and the seconds
\* it has left
NoEntry == [present |-> FALSE, data |-> json_dumps(NoResult), ttl |-> 0]
Entry(r) == [present |-> TRUE, data |-> json_dumps(r), ttl |-> CACHE_TTL_SECONDS]

\* the spans of time the cache's clock is advanced by
\* what Redis answers: nothing yet, an error, nil or the text of a GET, OK
\* of a SET
Reply(k, d) == [kind |-> k, data |-> d]
NoReply == Reply("none", NoEntry.data)

WaitVals == {150}

\* the cache dt seconds later: a key whose time is up is gone
Aged(c, dt) ==
    [k \in DOMAIN c |->
        IF c[k].present /\ c[k].ttl > dt
        THEN [c[k] EXCEPT !.ttl = @ - dt]
        ELSE NoEntry]

-----------------------------------------------------------------------------
(* detect_voice: one action per stage *)

\* mutant: an inconclusive fast gate leaves the hint "AI" for the fallback
FastGateLeavesHint ==
    /\ cpc = "FastGate"
    /\ LET g == check(req) IN
         IF g.kind = "verdict"
         THEN /\ gate_result' = g
              /\ result' = FastGateResult(g)
              /\ cpc' = "Done"
              /\ fast_gate_hint' = "None"
         ELSE /\ gate_result' = NoVerdict
              /\ result' = result
              /\ cpc' = "FeatureExtraction"
              /\ fast_gate_hint' = "AI"
    /\ UNCHANGED <<standing, features, fb_call, extract_calls, infer_calls>>
    /\ UNCHANGED endpointVars

\* lines 57-88
FastGate ==
    /\ cpc = "FastGate"
    /\ LET g == check(req) IN
         IF g.kind = "verdict"
         THEN /\ gate_result' = g
              /\ result' = FastGateResult(g)
              /\ cpc' = "Done"
         ELSE /\ gate_result' = NoVerdict
              /\ result' = result
              /\ cpc' = "FeatureExtraction"
    /\ fast_gate_hint' = "None"
    /\ UNCHANGED <<standing, features, fb_call, extract_calls, infer_calls>>
    /\ UNCHANGED endpointVars

\* lines 92-93
BackendMissing ==
    /\ cpc = "FeatureExtraction"
    /\ ~backend
    /\ fb_call' = FallbackCall(NoFeatures, "Model backend not available",
                               fast_gate_hint)
    /\ cpc' = "Fallback"
    /\ UNCHANGED <<standing, gate_result, fast_gate_hint, features, result,
                   extract_calls, infer_calls>>
    /\ UNCHANGED endpointVars

\* mutant: a failed extraction is retried
ExtractionFailedRetry == "FeatureExtraction"

\* lines 99-101: where a failed extraction goes
ExtractionFailed == "Fallback"

\* line 101: the features argument after a failed extraction
ExtractionFailedFeatures(ft) == NoFeatures

\* lines 95-101
FeatureExtraction(B) ==
    /\ cpc = "FeatureExtraction"
    /\ backend
    /\ extract_calls' = extract_calls + 1
    /\ \E out \in ExtractOutcomes(B) :
         IF out.kind = "raise"
         THEN /\ features' = features
              /\ fb_call' = FallbackCall(ExtractionFailedFeatures(features),
                                         "Feature extraction failed",
                                         fast_gate_hint)
              /\ cpc' = ExtractionFailed
         ELSE /\ features' = out.bundle
              /\ fb_call' = fb_call
              /\ cpc' = "PostExtractionGate"
    /\ UNCHANGED <<standing, gate_result, fast_gate_hint, result, infer_calls>>
    /\ UNCHANGED endpointVars

\* mutant: a verdict that does not return and falls through to STEP 3
AfterPostGateFallThrough(kind) ==
    IF kind = "raise" THEN "Raised" ELSE "Inference"

\* lines 129-155: where the post-extraction gate leaves the cascade
AfterPostGate(kind) ==
    CASE kind = "raise" -> "Raised"
      [] kind = "verdict" -> "Done"
      [] OTHER -> "Inference"

\* lines 103-150
PostGate ==
    /\ cpc = "PostExtractionGate"
    /\ LET g == PostExtractionGate(features) IN
         /\ cpc' = AfterPostGate(g.kind)
         /\ result' = IF g.kind = "verdict" THEN g.result ELSE result
    /\ UNCHANGED <<standing, gate_result, fast_gate_hint, features, fb_call,
                   extract_calls, infer_calls>>
    /\ UNCHANGED endpointVars

\* mutant: the bundle dropped on the way to the fallback
InferenceFailedFeaturesDropped(ft) == NoFeatures

\* line 161: the features argument after a failed inference
InferenceFailedFeatures(ft) == ft

\* lines 155-161
Inference ==
    /\ cpc = "Inference"
    /\ infer_calls' = infer_calls + 1
    /\ \E out \in InferOutcomes :
         IF out.kind = "raise"
         THEN /\ fb_call' = FallbackCall(InferenceFailedFeatures(features),
                                         "Inference failed",
                                         fast_gate_hint)
              /\ result' = result
              /\ cpc' = "Fallback"
         ELSE /\ fb_call' = fb_call
              /\ result' = out.result
              /\ cpc' = "Done"
    /\ UNCHANGED <<standing, gate_result, fast_gate_hint, features,
                   extract_calls>>
    /\ UNCHANGED endpointVars

\* lines 164-225, called from lines 93, 101 and 161
Fallback ==
    /\ cpc = "Fallback"
    /\ LET r == _create_fallback_response(fb_call.features, fb_call.reason,
                                          fb_call.hint) IN
         /\ cpc' = IF r.kind = "raise" THEN "Raised" ELSE "Done"
         /\ result' = r.result
    /\ UNCHANGED <<standing, gate_result, fast_gate_hint, features, fb_call,
                   extract_calls, infer_calls>>
    /\ UNCHANGED endpointVars


-----------------------------------------------------------------------------
(* detect_voice_endpoint: one action per stretch between two awaits *)

cascadeLocals == <<gate_result, fast_gate_hint, features, fb_call, result,
                   extract_calls, infer_calls>>

\* line 101: the f-string with settings.MIN_DURATION_SECONDS = 1.0 and
\* settings.MAX_DURATION_SECONDS = 30.0
DurationDetail == "Audio duration must be between 1.0s and 30.0s"

\* lines 79-121 for the audio a: reject it, or hand detect_voice to the
\* threadpool and wait for it under the 12 s deadline
ValidateAndStart(a) ==
    IF Validation(a) = 413
    THEN /\ response' = HTTPException(413, "Audio file too large")
         /\ epc' = "responded"
         /\ cpc' = "idle"
    ELSE IF Validation(a) = 400
    THEN /\ response' = HTTPException(400, DurationDetail)
         /\ epc' = "responded"
         /\ cpc' = "idle"
    ELSE /\ response' = NoResponse
         /\ epc' = "await"
         /\ cpc' = "FastGate"

\* lines 48-60: a request arrives once the previous one is answered and its
\* threadpool job has ended; with a cache it sends the GET of line 60
Receive(a) ==
    /\ epc \in {"idle", "responded"}
    /\ cpc \in {"idle", "Done", "Raised"}
    /\ served < MaxRequests
    /\ served' = served + 1
    /\ request_id' = served + 1
    /\ cached_res' = "unset"
    /\ redis_reply' = NoReply
    /\ timer_fired' = FALSE
    /\ fut_done' = FALSE
    /\ req' = a
    /\ metric' = ""
    /\ elapsed' = 0
    /\ gate_result' = NoVerdict
    /\ fast_gate_hint' = "None"
    /\ features' = NoFeatures
    /\ fb_call' = NoCall
    /\ result' = NoResult
    /\ extract_calls' = 0
    /\ infer_calls' = 0
    /\ IF redis_conn
       THEN /\ response' = NoResponse
            /\ epc' = "cache_get"
            /\ cpc' = "idle"
       ELSE ValidateAndStart(a)
    /\ UNCHANGED <<standing, redis_conn, cache>>

\* line 60, in Redis: the GET is served from the cache as it is at that
\* moment, or fails; the coroutine is still suspended
RedisGet ==
    /\ epc = "cache_get"
    /\ redis_reply = NoReply
    /\ \E read_ok \in BOOLEAN :
         redis_reply' =
            IF ~read_ok THEN Reply("raise", NoEntry.data)
            ELSE IF cache[req.id].present THEN Reply("text", cache[req.id].data)
            ELSE Reply("None", NoEntry.data)
    /\ UNCHANGED <<standing, redis_conn, cache, served, epc, req, response,
                   metric, elapsed, cpc, request_id, cached_res, timer_fired,
                   fut_done>>
    /\ UNCHANGED cascadeLocals

\* lines 60-74 and on: the coroutine resumes with the answer of the GET
CacheGet ==
    /\ epc = "cache_get"
    /\ redis_reply # NoReply
    /\ IF redis_reply.kind = "text"
       THEN /\ cached_res' = "text"
            /\ response' = Ok(ResponseOf(json_loads(redis_reply.data), request_id))
            /\ metric' = "cache_hit"
            /\ epc' = "responded"
            /\ cpc' = cpc
       ELSE /\ cached_res' = IF redis_reply.kind = "None" THEN "None" ELSE "unset"
            /\ metric' = metric
            /\ ValidateAndStart(req)
    /\ redis_reply' = NoReply
    /\ UNCHANGED <<standing, redis_conn, cache, served, req, elapsed, request_id,
                   timer_fired, fut_done>>
    /\ UNCHANGED cascadeLocals

\* lines 116-121: a second passes while wait_for waits for the job
Tick ==
    /\ epc = "await"
    /\ elapsed < TIMEOUT_SECONDS
    /\ elapsed' = elapsed + 1
    /\ UNCHANGED <<standing, redis_conn, cache, served, epc, req, response,
                   metric, cpc, request_id, cached_res, inflight>>
    /\ UNCHANGED cascadeLocals

\* lines 118-121, in the event loop: at the deadline the timer of wait_for
\* goes off, whatever the job has done; the coroutine resumes later.  A job
\* that has ended in its thread may or may not have got its outcome to the
\* loop by then; one that is still running has not
TimerFires ==
    /\ epc = "await"
    /\ elapsed = TIMEOUT_SECONDS
    /\ ~timer_fired
    /\ timer_fired' = TRUE
    /\ fut_done' \in (IF cpc \in {"Done", "Raised"} THEN BOOLEAN ELSE {FALSE})
    /\ UNCHANGED <<standing, redis_conn, cache, served, epc, req, response,
                   metric, elapsed, cpc, request_id, cached_res, redis_reply>>
    /\ UNCHANGED cascadeLocals

\* mutant: the timeout fallback stored in the cache
TimeoutCachesFallback ==
    /\ epc = "await"
    /\ timer_fired
    /\ ~fut_done
    /\ metric' = "timeout_fallback"
    /\ response' = Ok(TimeoutResponse(request_id))
    /\ epc' = "responded"
    /\ cache' = [cache EXCEPT ![req.id] =
                    Entry(Result("Human", 600,
                                 Explanation("timeout", "", Absent, Absent, Absent),
                                 "v1.1-timeout-safe"))]
    /\ UNCHANGED <<standing, redis_conn, served, req, cpc, elapsed, request_id, cached_res, inflight>>
    /\ UNCHANGED cascadeLocals

\* lines 122-132: the coroutine resumes after the timer went off and finds
\* no outcome of the job; the job may have ended in its thread, before the
\* timer or after it, and its result is dropped
Timeout ==
    /\ epc = "await"
    /\ timer_fired
    /\ ~fut_done
    /\ metric' = "timeout_fallback"
    /\ response' = Ok(TimeoutResponse(request_id))
    /\ epc' = "responded"
    /\ UNCHANGED <<standing, redis_conn, cache, served, req, cpc, elapsed, request_id, cached_res, inflight>>
    /\ UNCHANGED cascadeLocals

\* mutant: the result of a job that ends after the deadline handled like
\* one that ended in time
DeliverAfterTimeout ==
    /\ \/ epc = "await"
       \/ epc = "responded" /\ metric = "timeout_fallback"
    /\ cpc = "Done"
    /\ IF redis_conn
       THEN /\ epc' = "cache_set"
            /\ response' = response
       ELSE /\ epc' = "responded"
            /\ response' = Ok(ResponseOf(result, request_id))
    /\ metric' = "success"
    /\ elapsed' = 0
    /\ UNCHANGED <<standing, redis_conn, cache, served, req, cpc, request_id, cached_res, inflight>>
    /\ UNCHANGED cascadeLocals

\* lines 118-145: the coroutine resumes with the result of the job, which
\* reached the loop before the timer went off or together with it; with a
\* cache the coroutine sends the SET of line 145
Deliver ==
    /\ epc = "await"
    /\ timer_fired => fut_done
    /\ cpc = "Done"
    /\ IF redis_conn
       THEN /\ epc' = "cache_set"
            /\ response' = response
       ELSE /\ epc' = "responded"
            /\ response' = Ok(ResponseOf(result, request_id))
    /\ metric' = "success"
    /\ elapsed' = 0
    /\ UNCHANGED <<standing, redis_conn, cache, served, req, cpc, request_id, cached_res, inflight>>
    /\ UNCHANGED cascadeLocals

\* lines 166-172: the coroutine resumes with the exception of the job,
\* which reached the loop before the timer went off or together with it
DeliverError ==
    /\ epc = "await"
    /\ timer_fired => fut_done
    /\ cpc = "Raised"
    /\ response' = HTTPException(500, "Internal Server Error")
    /\ metric' = "UnhandledException"
    /\ elapsed' = 0
    /\ epc' = "responded"
    /\ UNCHANGED <<standing, redis_conn, cache, served, req, cpc, request_id, cached_res, inflight>>
    /\ UNCHANGED cascadeLocals

\* mutant: the result kept in a variable the two requests share
RedisSetSharedResult ==
    /\ epc = "cache_set"
    /\ redis_reply = NoReply
    /\ \E write_ok \in BOOLEAN :
         IF write_ok
         THEN /\ cache' = [cache EXCEPT ![req.id] =
                              Entry(IF peer.result # NoResult THEN peer.result
                                    ELSE result)]
              /\ redis_reply' = Reply("OK", NoEntry.data)
         ELSE /\ cache' = cache
              /\ redis_reply' = Reply("raise", NoEntry.data)
    /\ UNCHANGED <<standing, redis_conn, served, epc, req, response, metric,
                   elapsed, cpc, request_id, cached_res, timer_fired,
                   fut_done>>
    /\ UNCHANGED cascadeLocals

\* line 145, in Redis: the SET with ex=300 takes effect, or fails; the
\* coroutine is still suspended
RedisSet ==
    /\ epc = "cache_set"
    /\ redis_reply = NoReply
    /\ \E write_ok \in BOOLEAN :
         IF write_ok
         THEN /\ cache' = [cache EXCEPT ![req.id] = Entry(result)]
              /\ redis_reply' = Reply("OK", NoEntry.data)
         ELSE /\ cache' = cache
              /\ redis_reply' = Reply("raise", NoEntry.data)
    /\ UNCHANGED <<standing, redis_conn, served, epc, req, response, metric,
                   elapsed, cpc, request_id, cached_res, timer_fired,
                   fut_done>>
    /\ UNCHANGED cascadeLocals

\* lines 145-155: the coroutine resumes after the SET and answers
CacheSet ==
    /\ epc = "cache_set"
    /\ redis_reply # NoReply
    /\ response' = Ok(ResponseOf(result, request_id))
    /\ epc' = "responded"
    /\ redis_reply' = NoReply
    /\ UNCHANGED <<standing, redis_conn, cache, served, req, metric, cpc,
                   elapsed, request_id, cached_res, timer_fired,
                   fut_done>>
    /\ UNCHANGED cascadeLocals

\* lines 60 and 145: time passes in the cache between two requests (the
\* seconds a request takes are not counted); the keys set with ex=300 run
\* down and expire
Wait(dt) ==
    /\ epc \in {"idle", "responded"}
    /\ cpc \in {"idle", "Done", "Raised"}
    /\ \E k \in DOMAIN cache : cache[k].present
    /\ cache' = Aged(cache, dt)
    /\ UNCHANGED <<standing, redis_conn, served, epc, req, response, metric,
                   elapsed, cpc, request_id, cached_res, inflight>>
    /\ UNCHANGED cascadeLocals

\* the locals of one request: those of detect_voice_endpoint and those of
\* the detect_voice it started
Locals ==
    [epc |-> epc, req |-> req, response |-> response, metric |-> metric,
     elapsed |-> elapsed, request_id |-> request_id,
     cached_res |-> cached_res, redis_reply |-> redis_reply,
     timer_fired |-> timer_fired, fut_done |-> fut_done, cpc |-> cpc,
     gate_result |-> gate_result,
     fast_gate_hint |-> fast_gate_hint, features |-> features,
     fb_call |-> fb_call, result |-> result,
     extract_calls |-> extract_calls, infer_calls |-> infer_calls]

NoRequest ==
    [epc |-> "idle", req |-> Audio("", 0, Absent, "undecodable", NoFastFeatures),
     response |-> NoResponse, metric |-> "", elapsed |-> 0, request_id |-> 0,
     cached_res |-> "unset", redis_reply |-> NoReply, timer_fired |-> FALSE,
     fut_done |-> FALSE,
     cpc |-> "idle", gate_result |-> NoVerdict, fast_gate_hint |-> "None",
     features |-> NoFeatures, fb_call |-> NoCall, result |-> NoResult,
     extract_calls |-> 0, infer_calls |-> 0]

\* lines 60, 118 and 145: at an await the event loop, and at any time the
\* threadpool, runs the other request; its locals and this one's change
\* places
Switch ==
    /\ peer' = Locals
    /\ epc' = peer.epc
    /\ req' = peer.req
    /\ response' = peer.response
    /\ metric' = peer.metric
    /\ elapsed' = peer.elapsed
    /\ request_id' = peer.request_id
    /\ cached_res' = peer.cached_res
    /\ redis_reply' = peer.redis_reply
    /\ timer_fired' = peer.timer_fired
    /\ fut_done' = peer.fut_done
    /\ cpc' = peer.cpc
    /\ gate_result' = peer.gate_result
    /\ fast_gate_hint' = peer.fast_gate_hint
    /\ features' = peer.features
    /\ fb_call' = peer.fb_call
    /\ result' = peer.result
    /\ extract_calls' = peer.extract_calls
    /\ infer_calls' = peer.infer_calls
    /\ UNCHANGED <<backend, redis_conn, cache, served, wav, decoded, readiness,
                   computing>>

\* decode_audio_fast called on the bytes wav
Decode ==
    /\ decoded.kind = "pending"
    /\ decoded' = decode_audio_fast(wav)
    /\ UNCHANGED <<backend, redis_conn, cache, served, peer, wav, readiness,
                   computing>>
    /\ UNCHANGED <<epc, req, response, metric, elapsed, cpc, request_id,
                   cached_res, inflight>>
    /\ UNCHANGED cascadeLocals

\* sample values in thousandths, and the lengths and rates tried: the rates
\* 0 and 2 make compute_features_fast raise, 10 and 20 give chunks of one
\* and of two samples, 16000 a chunk longer than the array
SampleVals == {-500, -5, 0, 5, 500}
MaxSamples == 4
ComputeRates == {0, 2, 10, 20, 16000}

SampleArrays ==
    UNION {[1..n -> SampleVals] : n \in 1..MaxSamples}

\* fast_gate.py line 138
ComputeFeatures ==
    /\ fast_features.kind = "pending"
    /\ fast_features' = compute_features_fast(samples, sample_rate)
    /\ UNCHANGED <<backend, peer, wav, decoded, readiness, samples, sample_rate>>
    /\ UNCHANGED endpointVars
    /\ UNCHANGED <<cpc, cascadeLocals>>

NotComputing ==
    /\ samples = <<>>
    /\ sample_rate = 0
    /\ fast_features = NotComputed

\* what part2.utils.load_artifacts can do: raise or return, having loaded
\* the model, the calibrator, both or neither
LoadArtifactsOutcomes ==
    [raises : BOOLEAN, model : BOOLEAN, calibrator : BOOLEAN]

MaxPreloads == 3

\* orchestrator.py lines 231-289.  p1_raises: part1's load_model raises
preload_models(p1_raises, la) ==
    /\ preloads < MaxPreloads
    /\ preloads' = preloads + 1
    \* lines 239-249
    /\ part1_model' =
          (part1_model \/ (backend /\ USE_DEEP_FEATURES /\ ~p1_raises))
    \* lines 251-254: skipped when the import of lines 31-38 failed
    /\ _MODEL' = (_MODEL \/ (backend /\ la.model))
    /\ _CALIBRATOR' = (_CALIBRATOR \/ (backend /\ la.calibrator))
    \* lines 258-267: return without setting the flag; lines 270-286
    \* otherwise, the except of line 282 taking any error of the warm-up
    /\ MODEL_LOADED' =
          IF backend /\ (la.raises \/ ~_MODEL' \/ ~_CALIBRATOR')
          THEN MODEL_LOADED
          ELSE TRUE
    /\ UNCHANGED <<backend, peer, wav, decoded, USE_DEEP_FEATURES, probe,
                   computing>>
    /\ UNCHANGED endpointVars
    /\ UNCHANGED <<cpc, cascadeLocals>>

\* routes.py lines 34-39
readiness_probe ==
    /\ probe' = IF MODEL_LOADED THEN 200 ELSE 503
    /\ UNCHANGED <<backend, peer, wav, decoded, USE_DEEP_FEATURES, part1_model,
                   _MODEL, _CALIBRATOR, MODEL_LOADED, preloads, computing>>
    /\ UNCHANGED endpointVars
    /\ UNCHANGED <<cpc, cascadeLocals>>

\* module import of orchestrator.py (line 15) and of part2.utils
NotPreloaded ==
    /\ USE_DEEP_FEATURES = FALSE
    /\ part1_model = FALSE
    /\ _MODEL = FALSE
    /\ _CALIBRATOR = FALSE
    /\ MODEL_LOADED = FALSE
    /\ preloads = 0
    /\ probe = 0

-----------------------------------------------------------------------------
(* Specifications *)

\* the service after start-up
Init ==
    /\ backend \in BOOLEAN
    /\ redis_conn \in BOOLEAN
    /\ cache = [k \in AudioIds |-> NoEntry]
    /\ served = 0
    /\ epc = "idle"
    /\ req = Audio("", 0, Absent, "undecodable", NoFastFeatures)
    /\ response = NoResponse
    /\ metric = ""
    /\ elapsed = 0
    /\ cpc = "idle"
    /\ gate_result = NoVerdict
    /\ fast_gate_hint = "None"
    /\ features = NoFeatures
    /\ fb_call = NoCall
    /\ result = NoResult
    /\ extract_calls = 0
    /\ infer_calls = 0
    /\ request_id = 0
    /\ cached_res = "unset"
    /\ redis_reply = NoReply
    /\ timer_fired = FALSE
    /\ fut_done = FALSE
    /\ peer = NoRequest
    /\ wav = NoBytes
    /\ decoded = NotDecoded
    /\ NotPreloaded
    /\ NotComputing

Next ==
    \/ \E a \in EndpointAudios : Receive(a)
    \/ RedisGet
    \/ CacheGet
    \/ FastGate
    \/ BackendMissing
    \/ FeatureExtraction(EndpointBundles)
    \/ PostGate
    \/ Inference
    \/ Fallback
    \/ Tick
    \/ TimerFires
    \/ Timeout
    \/ Deliver
    \/ DeliverError
    \/ RedisSet
    \/ CacheSet

Spec == Init /\ [][Next]_vars

\* the endpoint with time passing in the cache between the requests
NextCache ==
    \/ \E a \in CacheAudios : Receive(a)
    \/ RedisGet
    \/ CacheGet
    \/ FastGate
    \/ BackendMissing
    \/ FeatureExtraction(CacheBundles)
    \/ PostGate
    \/ Inference
    \/ Fallback
    \/ Tick
    \/ TimerFires
    \/ Timeout
    \/ Deliver
    \/ DeliverError
    \/ RedisSet
    \/ CacheSet
    \/ \E dt \in WaitVals : Wait(dt)

SpecCache == Init /\ [][NextCache]_vars

\* two requests in flight at once, the cache connected, both cascades
\* ending within the deadline
InitPair ==
    /\ backend \in BOOLEAN
    /\ redis_conn = TRUE
    /\ cache = [k \in AudioIds |-> NoEntry]
    /\ served = 0
    /\ epc = "idle"
    /\ req = Audio("", 0, Absent, "undecodable", NoFastFeatures)
    /\ response = NoResponse
    /\ metric = ""
    /\ elapsed = 0
    /\ cpc = "idle"
    /\ gate_result = NoVerdict
    /\ fast_gate_hint = "None"
    /\ features = NoFeatures
    /\ fb_call = NoCall
    /\ result = NoResult
    /\ extract_calls = 0
    /\ infer_calls = 0
    /\ request_id = 0
    /\ cached_res = "unset"
    /\ redis_reply = NoReply
    /\ timer_fired = FALSE
    /\ fut_done = FALSE
    /\ peer = NoRequest
    /\ wav = NoBytes
    /\ decoded = NotDecoded
    /\ NotPreloaded
    /\ NotComputing

NextPair ==
    \/ \E a \in PairAudios : Receive(a)
    \/ RedisGet
    \/ CacheGet
    \/ FastGate
    \/ BackendMissing
    \/ FeatureExtraction(PairBundles)
    \/ PostGate
    \/ Inference
    \/ Fallback
    \/ Deliver
    \/ DeliverError
    \/ RedisSet
    \/ CacheSet
    \/ Switch

SpecPair == InitPair /\ [][NextPair]_vars

\* detect_voice called on its own, as a unit test of the orchestrator calls it
InitCascade ==
    /\ backend \in BOOLEAN
    /\ redis_conn = FALSE
    /\ cache = [k \in AudioIds |-> NoEntry]
    /\ served = 1
    /\ epc = "direct"
    /\ req \in CascadeAudios
    /\ response = NoResponse
    /\ metric = ""
    /\ elapsed = 0
    /\ cpc = "FastGate"
    /\ gate_result = NoVerdict
    /\ fast_gate_hint = "None"
    /\ features = NoFeatures
    /\ fb_call = NoCall
    /\ result = NoResult
    /\ extract_calls = 0
    /\ infer_calls = 0
    /\ request_id = 1
    /\ cached_res = "unset"
    /\ redis_reply = NoReply
    /\ timer_fired = FALSE
    /\ fut_done = FALSE
    /\ peer = NoRequest
    /\ wav = NoBytes
    /\ decoded = NotDecoded
    /\ NotPreloaded
    /\ NotComputing

NextCascade ==
    \/ FastGate
    \/ BackendMissing
    \/ FeatureExtraction(AllBundles)
    \/ PostGate
    \/ Inference
    \/ Fallback

SpecCascade == InitCascade /\ [][NextCascade]_vars

\* fast_gate.check applied to every FastFeatures of the grid
InitGate ==
    /\ backend = TRUE
    /\ redis_conn = FALSE
    /\ cache = [k \in AudioIds |-> NoEntry]
    /\ served = 1
    /\ epc = "direct"
    /\ req \in GateAudios
    /\ response = NoResponse
    /\ metric = ""
    /\ elapsed = 0
    /\ cpc = "FastGate"
    /\ gate_result = NoVerdict
    /\ fast_gate_hint = "None"
    /\ features = NoFeatures
    /\ fb_call = NoCall
    /\ result = NoResult
    /\ extract_calls = 0
    /\ infer_calls = 0
    /\ request_id = 1
    /\ cached_res = "unset"
    /\ redis_reply = NoReply
    /\ timer_fired = FALSE
    /\ fut_done = FALSE
    /\ peer = NoRequest
    /\ wav = NoBytes
    /\ decoded = NotDecoded
    /\ NotPreloaded
    /\ NotComputing

NextGate == FastGate

SpecGate == InitGate /\ [][NextGate]_vars

\* decode_audio_fast applied to every text of WavInputs
InitDecode ==
    /\ backend = TRUE
    /\ redis_conn = FALSE
    /\ cache = [k \in AudioIds |-> NoEntry]
    /\ served = 0
    /\ epc = "idle"
    /\ req = Audio("", 0, Absent, "undecodable", NoFastFeatures)
    /\ response = NoResponse
    /\ metric = ""
    /\ elapsed = 0
    /\ cpc = "idle"
    /\ gate_result = NoVerdict
    /\ fast_gate_hint = "None"
    /\ features = NoFeatures
    /\ fb_call = NoCall
    /\ result = NoResult
    /\ extract_calls = 0
    /\ infer_calls = 0
    /\ request_id = 0
    /\ cached_res = "unset"
    /\ redis_reply = NoReply
    /\ timer_fired = FALSE
    /\ fut_done = FALSE
    /\ peer = NoRequest
    /\ wav \in WavInputs
    /\ decoded = NotDecoded
    /\ NotPreloaded
    /\ NotComputing

NextDecode == Decode

SpecDecode == InitDecode /\ [][NextDecode]_vars

\* compute_features_fast called on an array of samples
InitFeatures ==
    /\ backend = TRUE
    /\ redis_conn = FALSE
    /\ cache = [k \in AudioIds |-> NoEntry]
    /\ served = 0
    /\ epc = "idle"
    /\ req = Audio("", 0, Absent, "undecodable", NoFastFeatures)
    /\ response = NoResponse
    /\ metric = ""
    /\ elapsed = 0
    /\ cpc = "idle"
    /\ gate_result = NoVerdict
    /\ fast_gate_hint = "None"
    /\ features = NoFeatures
    /\ fb_call = NoCall
    /\ result = NoResult
    /\ extract_calls = 0
    /\ infer_calls = 0
    /\ request_id = 0
    /\ cached_res = "unset"
    /\ redis_reply = NoReply
    /\ timer_fired = FALSE
    /\ fut_done = FALSE
    /\ peer = NoRequest
    /\ wav = NoBytes
    /\ decoded = NotDecoded
    /\ USE_DEEP_FEATURES = FALSE
    /\ part1_model = FALSE
    /\ _MODEL = FALSE
    /\ _CALIBRATOR = FALSE
    /\ MODEL_LOADED = FALSE
    /\ preloads = 0
    /\ probe = 0
    /\ samples \in SampleArrays
    /\ sample_rate \in ComputeRates
    /\ fast_features = NotComputed

NextFeatures == ComputeFeatures

SpecFeatures == InitFeatures /\ [][NextFeatures]_vars

\* the process from the import of the orchestrator on: start-up runs
\* preload_models, and /ready may be asked at any time
InitPreload ==
    /\ backend \in BOOLEAN
    /\ redis_conn = FALSE
    /\ cache = [k \in AudioIds |-> NoEntry]
    /\ served = 0
    /\ epc = "idle"
    /\ req = Audio("", 0, Absent, "undecodable", NoFastFeatures)
    /\ response = NoResponse
    /\ metric = ""
    /\ elapsed = 0
    /\ cpc = "idle"
    /\ gate_result = NoVerdict
    /\ fast_gate_hint = "None"
    /\ features = NoFeatures
    /\ fb_call = NoCall
    /\ result = NoResult
    /\ extract_calls = 0
    /\ infer_calls = 0
    /\ request_id = 0
    /\ cached_res = "unset"
    /\ redis_reply = NoReply
    /\ timer_fired = FALSE
    /\ fut_done = FALSE
    /\ peer = NoRequest
    /\ wav = NoBytes
    /\ decoded = NotDecoded
    /\ USE_DEEP_FEATURES \in BOOLEAN
    /\ part1_model = FALSE
    /\ _MODEL = FALSE
    /\ _CALIBRATOR = FALSE
    /\ MODEL_LOADED = FALSE
    /\ preloads = 0
    /\ probe = 0
    /\ NotComputing

NextPreload ==
    \/ \E p1_raises \in BOOLEAN, la \in LoadArtifactsOutcomes :
          preload_models(p1_raises, la)
    \/ readiness_probe

SpecPreload == InitPreload /\ [][NextPreload]_vars


-----------------------------------------------------------------------------
(* Properties *)

Rank(pc) ==
    CASE pc = "FastGate" -> 1
      [] pc = "FeatureExtraction" -> 2
      [] pc = "PostExtractionGate" -> 3
      [] pc = "Inference" -> 4
      [] pc = "Fallback" -> 5
      [] pc = "Done" -> 6
      [] OTHER -> 7

FallbackReturned == fb_call.made /\ cpc = "Done"

\* C1: detect_voice is total: whatever the stages do, no exception escapes
\* to its caller.
C1_NoExceptionEscapes == cpc # "Raised"

\* C2: the wait never outlasts the deadline; when the timer of the deadline
\* goes off with the cascade short of Done, the answer, once given, is the
\* timeout fallback, whatever stage the cascade was in; the timeout fallback
\* is the fixed response Human, 0.6, "v1.1-timeout-safe".
C2_TimeoutFallback ==
    /\ epc = "await" => elapsed <= TIMEOUT_SECONDS
    /\ (timer_fired /\ cpc \notin {"Done", "Raised"}) => ~fut_done
    /\ (timer_fired /\ ~fut_done /\ epc # "await") =>
        metric = "timeout_fallback"
    /\ metric = "timeout_fallback" =>
        /\ epc = "responded"
        /\ elapsed = TIMEOUT_SECONDS
        /\ response.status = 200
        /\ response.body.classification = "Human"
        /\ response.body.confidence = 600
        /\ response.body.model_version = "v1.1-timeout-safe"
        /\ response.body.request_id = request_id
        /\ response.body.explanation.template = "timeout"

C2_Witness ==
    /\ metric = "timeout_fallback"
    /\ cpc = "Inference"
    /\ response.body.model_version = "v1.1-timeout-safe"

\* C3: the stages run in the order FastGate, FeatureExtraction,
\* PostExtractionGate, Inference, Fallback, Done without backtracking;
\* extraction starts only when the fast gate gave no verdict, inference only
\* after a successful extraction and an inconclusive post-extraction gate,
\* fallback only after a failure; a verdict, an inference result or a
\* fallback result leads straight to Done, and nothing runs after Done.
C3_StageOrder ==
    [][ /\ cpc' # cpc => Rank(cpc) < Rank(cpc')
        /\ cpc = "Done" => cpc' = "Done" /\ result' = result
        /\ extract_calls' # extract_calls =>
              /\ cpc = "FeatureExtraction"
              /\ gate_result.kind # "verdict"
              /\ result = NoResult
        /\ cpc' = "PostExtractionGate" /\ cpc' # cpc =>
              cpc = "FeatureExtraction" /\ features'.kind = "bundle"
        /\ infer_calls' # infer_calls =>
              /\ cpc = "Inference"
              /\ features.kind = "bundle"
              /\ extract_calls = 1
              /\ result = NoResult
              /\ ~fb_call.made
        /\ cpc' = "Inference" /\ cpc' # cpc => cpc = "PostExtractionGate"
        /\ cpc' = "Fallback" /\ cpc' # cpc =>
              /\ result' = NoResult
              /\ \/ cpc = "FeatureExtraction" /\ features'.kind = "none"
                 \/ cpc = "Inference" /\ infer_calls' = infer_calls + 1
        /\ cpc' = "Done" /\ cpc' # cpc =>
              /\ result' # NoResult
              /\ cpc \in {"FastGate", "PostExtractionGate", "Inference", "Fallback"}
        /\ result' # result => cpc' = "Done"
      ]_vars

C3_Witness ==
    /\ cpc = "Done"
    /\ extract_calls = 1
    /\ infer_calls = 1
    /\ fb_call.made
    /\ result.model_version = "v1.2-fallback-human"

\* C4: a result of the post-extraction gate that says AI-Generated was
\* computed from values none of which is a human indicator (jitter > 0.01,
\* shimmer > 0.03, HNR < 25) and at least two of which are AI indicators.
C4_NoAIWithHumanScore ==
    (result.model_version = "v1.2-acoustic-gate"
        /\ result.classification = "AI-Generated") =>
        /\ ~Gt(post_jitter(features), 10)
        /\ ~Gt(post_shimmer(features), 30)
        /\ ~Lt(post_hnr(features), 250)
        /\ post_ai_score(post_jitter(features), post_shimmer(features),
                         post_hnr(features)) >= 2

C4_Witness ==
    /\ result.model_version = "v1.2-acoustic-gate"
    /\ result.classification = "AI-Generated"
    /\ post_ai_score(post_jitter(features), post_shimmer(features),
                     post_hnr(features)) = 2

\* C5: on any error the orchestrator's fallback says Human, never
\* AI-Generated, unless an AI hint of the fast gate was carried forward.
C5_FallbackAlwaysHuman ==
    (FallbackReturned /\ fb_call.hint # "AI") => result.classification = "Human"

\* C6: every result of the fallback synthesizer has confidence in
\* [0.55, 0.90], and without an acoustic bundle it says Human.
C6_FallbackConfidence ==
    FallbackReturned =>
        /\ result.confidence >= 550
        /\ result.confidence <= 900
        /\ fb_call.features.kind = "none" => result.classification = "Human"

C6_Witness ==
    /\ FallbackReturned
    /\ fb_call.features.kind = "none"
    /\ fb_call.reason = "Feature extraction failed"
    /\ result.classification = "Human"

\* C7: no FastFeatures satisfies the Human rule and the AI rule together,
\* and a conclusive fast-gate verdict has confidence in [0.75, 0.90].
C7_FastGateExclusive ==
    /\ ~(is_likely_human(req.fast.f) /\ is_likely_ai(req.fast.f))
    /\ gate_result.kind = "verdict" =>
          gate_result.confidence >= 750 /\ gate_result.confidence <= 900

C7_Witness ==
    /\ gate_result.kind = "verdict"
    /\ ~gate_result.is_human
    /\ gate_result.confidence = 900

\* C8: in one request part1.extract_features and part2.infer are called at
\* most once each, and a failure of either goes to the fallback synthesizer
\* without a second call.
C8_NoRetries ==
    /\ extract_calls <= 1
    /\ infer_calls <= 1
    /\ fb_call.reason = "Feature extraction failed" =>
          /\ extract_calls = 1
          /\ infer_calls = 0
          /\ cpc \in {"Fallback", "Done"}
    /\ fb_call.reason = "Inference failed" =>
          /\ extract_calls = 1
          /\ infer_calls = 1
          /\ cpc \in {"Fallback", "Done"}

C8_Witness ==
    /\ fb_call.reason = "Inference failed"
    /\ cpc = "Done"
    /\ epc = "responded"
    /\ served = 2

\* C9: after a failed extraction the fallback synthesizer is called without
\* a bundle and scores the defaults jitter 0.02, shimmer 0.04, HNR 20; after
\* a failed inference it is called with the bundle the extraction produced.
C9_FallbackBundle ==
    /\ fb_call.reason = "Feature extraction failed" =>
          /\ fb_call.features = NoFeatures
          /\ cpc = "Done" =>
                /\ result.explanation.v1 = Num(20)
                /\ result.explanation.v2 = Num(40)
                /\ result.explanation.v3 = Num(200)
    /\ fb_call.reason = "Inference failed" =>
          /\ features.kind = "bundle"
          /\ fb_call.features = features

C9_Witness ==
    /\ FallbackReturned
    /\ fb_call.reason = "Inference failed"
    /\ fb_call.features.has_acoustic
    /\ fb_call.features.jitter_local = Num(6)
    /\ result.explanation.v1 = Num(6)

\* a step that sets a key of the cache (not one that lets time pass)
Stored ==
    \E k \in DOMAIN cache :
        /\ cache'[k].present
        /\ \/ ~cache[k].present
           \/ cache'[k].data # cache[k].data
           \/ cache'[k].ttl > cache[k].ttl

\* C10: the cache is read before the cascade starts; on a hit neither the
\* cascade nor a collaborator runs; the cache is written only once the
\* cascade has returned its result, by a request that counted a success
\* and has no response yet, and the response that request gets after the
\* write is its result: never the timeout fallback, never an error.
C10_CacheDiscipline ==
    [][ /\ epc' = "cache_get" => cpc' = "idle"
        /\ metric' = "cache_hit" =>
              /\ cpc' = "idle"
              /\ extract_calls' = 0
              /\ infer_calls' = 0
              /\ response'.status = 200
        /\ Stored =>
              /\ cpc = "Done"
              /\ metric = "success"
              /\ epc = "cache_set"
              /\ timer_fired => fut_done
              /\ cache' = [cache EXCEPT ![req.id] = Entry(result)]
              /\ response.status = 0
              /\ response' = response
        /\ (epc = "cache_set" /\ response'.status # 0) =>
              /\ response' = Ok(ResponseOf(result, request_id))
              /\ response'.body.model_version # "v1.1-timeout-safe"
      ]_vars

C10_Witness ==
    /\ metric = "cache_hit"
    /\ response.status = 200
    /\ served = 2
    /\ cache[req.id].present

\* the other request in flight carries the same audio and was answered with
\* the result of its own cascade
PeerServedSameAudio ==
    /\ peer.req.id = req.id
    /\ peer.cached_res = "None"
    /\ peer.epc = "responded"
    /\ peer.metric = "success"

\* C11 as stated: when two requests with the same audio both missed the
\* cache and ran the cascade, the second write under the shared key stores
\* the value the first one stored (the overwrite is idempotent).
C11_IdempotentOverwrite ==
    [][ ( /\ epc = "cache_set"
          /\ cached_res = "None"
          /\ cache[req.id].present
          /\ PeerServedSameAudio )
            => cache' = cache
      ]_vars

\* C11 amended: a write to the cache stores the result of the request that
\* makes it and leaves the other request's locals alone, and the request is
\* answered with the same result once the write returns, whatever the other
\* request wrote in between; two requests with the same audio
\* whose collaborators behaved alike (same bundle or same failure, and an
\* inference that returned in neither) have equal results, so their writes
\* are equal.
C11_LastWriterWins ==
    /\ [][ Stored =>
              /\ epc = "cache_set"
              /\ metric = "success"
              /\ cache' = [cache EXCEPT ![req.id] = Entry(result)]
              /\ response' = response
              /\ peer' = peer
          ]_vars
    /\ [][ (epc = "cache_set" /\ epc' = "responded" /\ peer' = peer) =>
              /\ redis_reply # NoReply
              /\ response' = Ok(ResponseOf(result, request_id))
              /\ cache' = cache
          ]_vars
    /\ []( ( /\ peer.req.id = req.id
             /\ cpc = "Done" /\ peer.cpc = "Done"
             /\ features = peer.features
             /\ fb_call = peer.fb_call
             /\ infer_calls = peer.infer_calls
             /\ (infer_calls = 0 \/ fb_call.made) )
           => result = peer.result )

C11_Witness ==
    /\ PeerServedSameAudio
    /\ cached_res = "None"
    /\ epc = "responded"
    /\ metric = "success"
    /\ fb_call.reason = "Inference failed"
    /\ peer.fb_call.reason = ""
    /\ peer.infer_calls = 1
    /\ result # peer.result
    /\ cache[req.id] = Entry(result)

\* C12: what a request stores in the cache reads back as the result it
\* stored; a later request that finds the key is answered with the
\* classification, confidence, explanation and version tag read from it and
\* with its own request identifier; a key is found only while it has time
\* left of its 300 seconds, and time passing only takes time off a key or
\* removes it.
C12_CacheRoundTrip ==
    /\ [][ Stored => json_loads(cache'[req.id].data) = result ]_vars
    /\ [][ (metric' = "cache_hit" /\ metric # "cache_hit") =>
              /\ cache[req.id].present
              /\ cache[req.id].ttl >= 1
              /\ response' =
                    Ok(DetectResponse(
                         json_loads(cache[req.id].data).classification,
                         json_loads(cache[req.id].data).confidence,
                         json_loads(cache[req.id].data).explanation,
                         json_loads(cache[req.id].data).model_version,
                         request_id'))
          ]_vars
    /\ [][ (cache' # cache /\ ~Stored) =>
              \A k \in DOMAIN cache :
                  IF cache[k].present
                  THEN ~cache'[k].present \/ cache'[k].ttl < cache[k].ttl
                  ELSE ~cache'[k].present
          ]_vars
    /\ [](\A k \in DOMAIN cache :
              cache[k].present => cache[k].ttl \in 1..CACHE_TTL_SECONDS)

C12_Witness ==
    /\ metric = "cache_hit"
    /\ request_id = 2
    /\ cache[req.id].present
    /\ cache[req.id].ttl < CACHE_TTL_SECONDS
    /\ cache[req.id].data.confidence = <<0, 8, 5>>
    /\ response.status = 200
    /\ response.body.confidence = 850
    /\ response.body.model_version = "v1.2-fallback-ai"

FallbackTags == {"v1.2-fallback-human", "v1.2-fallback-ai"}

\* C13: the version tag of a result names the stage that ended the cascade:
\* "v1.2-fast-gate" exactly when the fast gate gave a verdict,
\* "v1.2-acoustic-gate" exactly when the extraction succeeded and neither
\* inference nor fallback ran, a fallback tag exactly when the fallback
\* synthesizer was called; a response carries "v1.1-timeout-safe" exactly
\* when the deadline elapsed, the tag of the cascade's result when the
\* cascade ended in time, and on a cache hit the fast-gate tag exactly when
\* the fast gate is conclusive for the audio.
C13_VersionTag ==
    /\ cpc = "Done" =>
          /\ result.model_version = "v1.2-fast-gate"
                <=> gate_result.kind = "verdict"
          /\ result.model_version = "v1.2-acoustic-gate"
                <=> /\ gate_result.kind # "verdict"
                    /\ features.kind = "bundle"
                    /\ infer_calls = 0
                    /\ ~fb_call.made
          /\ result.model_version \in FallbackTags <=> fb_call.made
          /\ result.model_version # "v1.1-timeout-safe"
    /\ response.status = 200 =>
          /\ response.body.model_version = "v1.1-timeout-safe"
                <=> metric = "timeout_fallback"
          /\ metric = "success" =>
                response.body.model_version = result.model_version
          /\ metric = "cache_hit" =>
                (response.body.model_version = "v1.2-fast-gate"
                    <=> check(req).kind = "verdict")

C13_Witness ==
    /\ epc = "responded"
    /\ response.status = 200
    /\ metric = "cache_hit"
    /\ response.body.model_version = "v1.2-fast-gate"
    /\ gate_result.kind # "verdict"

\* C14: decode_audio_fast returns samples or None and never raises; it
\* returns None for a text that is not base64, for bytes that do not start
\* with RIFF, for fewer than 44 bytes even when they start with RIFF, and for
\* a bits-per-sample field other than 8 or 16.
C14_DecoderTotal ==
    decoded.kind # "pending" =>
        /\ decoded.kind \in {"samples", "none"}
        /\ ~wav.b64_ok => decoded.kind = "none"
        /\ ~wav.riff => decoded.kind = "none"
        /\ wav.len < 44 => decoded.kind = "none"
        /\ wav.bits_per_sample \notin {8, 16} => decoded.kind = "none"

C14_Witness ==
    /\ decoded.kind = "none"
    /\ wav.riff
    /\ wav.len = 43

\* C15: whenever decode_audio_fast returns samples, there is at least one
\* sample and the sample rate is at least 1.
C15_SamplesNonEmpty ==
    decoded.kind = "samples" => decoded.n >= 1 /\ decoded.sample_rate >= 1

Labels == {"Human", "AI-Generated"}

\* C16: the classification of every response sent with status 200, and of
\* every result detect_voice returns, is "Human" or "AI-Generated".
C16_ClassificationLabel ==
    /\ response.status = 200 => response.body.classification \in Labels
    /\ cpc = "Done" => result.classification \in Labels
    /\ \A k \in DOMAIN cache :
          cache[k].present => cache[k].data.classification \in Labels

C16_Witness ==
    /\ response.status = 200
    /\ metric = "cache_hit"
    /\ response.body.classification = "AI-Generated"
    /\ response.body.model_version = "part2"

\* C17: every response sent with status 200 carries the decision threshold
\* 0.5.
C17_ThresholdEchoed ==
    response.status = 200 =>
        /\ "decision_threshold" \in DOMAIN response.body
        /\ response.body.decision_threshold = 500

DurationOutOfRange(a) ==
    /\ a.wav_duration.kind = "num"
    /\ \/ a.wav_duration.val < MIN_DURATION_SECONDS
       \/ a.wav_duration.val > MAX_DURATION_SECONDS

\* C18: for a request whose audioBase64 is longer than MAX_AUDIO_SIZE_BYTES,
\* or whose WAV duration is below MIN_DURATION_SECONDS or above
\* MAX_DURATION_SECONDS, detect_voice is never started and no collaborator
\* is called; the request is answered 413 in the first case and 400 in the
\* second, never 500.
C18_GatesBeforeCore ==
    /\ (epc # "idle" /\ req.size > MAX_AUDIO_SIZE_BYTES) =>
          /\ cpc = "idle"
          /\ extract_calls = 0 /\ infer_calls = 0
          /\ result = NoResult
          /\ epc = "responded" => response.status = 413
    /\ (epc # "idle" /\ req.size <= MAX_AUDIO_SIZE_BYTES
            /\ DurationOutOfRange(req)) =>
          /\ cpc = "idle"
          /\ extract_calls = 0 /\ infer_calls = 0
          /\ result = NoResult
          /\ epc = "responded" => response.status = 400

C18_Witness ==
    /\ epc = "responded"
    /\ req.id = "wav_short"
    /\ response.status = 400
    /\ cached_res = "None"
    /\ served = 2

\* C19: a request is answered once: a response, once sent, is not replaced;
\* the answer given when the wait ends is the timeout fallback or the result
\* of the cascade, the first only after the timer of the deadline went off
\* with no outcome of the cascade at the event loop, the second only when
\* the cascade ended and its outcome was there by the time the timer went
\* off; once the timer went off without it the cascade may run on to Done,
\* and its result changes neither the response nor the cache.
C19_SingleResponse ==
    [][ served' = served =>
          /\ response.status # 0 => response' = response
          /\ (timer_fired' /\ ~timer_fired) =>
                /\ elapsed = TIMEOUT_SECONDS
                /\ fut_done' => cpc \in {"Done", "Raised"}
          /\ timer_fired => fut_done' = fut_done
          /\ (timer_fired /\ ~fut_done) =>
                /\ cache' = cache
                /\ metric' \in {"", "timeout_fallback"}
                /\ epc' \in {"await", "responded"}
          /\ metric = "timeout_fallback" =>
                /\ metric' = metric
                /\ cache' = cache
                /\ epc' = "responded"
          /\ (response.status = 0 /\ response'.status = 200
                 /\ metric' # "cache_hit") =>
                \/ /\ metric' = "timeout_fallback"
                   /\ elapsed = TIMEOUT_SECONDS
                   /\ timer_fired
                   /\ ~fut_done
                   /\ response' = Ok(TimeoutResponse(request_id))
                \/ /\ metric' = "success"
                   /\ cpc = "Done"
                   /\ timer_fired => fut_done
                   /\ response' = Ok(ResponseOf(result, request_id))
      ]_vars

C19_Witness ==
    /\ metric = "timeout_fallback"
    /\ redis_conn
    /\ cpc = "Done"
    /\ result.model_version = "part2"
    /\ response = Ok(TimeoutResponse(request_id))
    /\ ~cache[req.id].present

\* C20: once the post-extraction gate has scored a bundle, the outcome
\* follows from the two scores: AI-Generated with confidence
\* min(0.90, 0.70 + 0.10 * ai_score) exactly when ai_score >= 2 and
\* human_score = 0; otherwise Human with confidence
\* min(0.90, 0.70 + 0.10 * human_score) exactly when human_score >= 2;
\* otherwise no verdict, and inference is invoked.  Jitter 0.002, shimmer
\* 0.01, HNR 30 gives AI-Generated 0.90.
C20_PostGateDecision ==
    LET j == post_jitter(features)
        s == post_shimmer(features)
        h == post_hnr(features)
        ai == post_ai_score(j, s, h)
        hu == post_human_score(j, s, h)
        by_gate == cpc = "Done" /\ infer_calls = 0 /\ ~fb_call.made
    IN  (features.kind = "bundle" /\ Rank(cpc) > 3
            /\ Comparable(j) /\ Comparable(s) /\ Comparable(h)) =>
          /\ (ai >= 2 /\ hu = 0) <=>
                /\ by_gate
                /\ result.classification = "AI-Generated"
          /\ (~(ai >= 2 /\ hu = 0) /\ hu >= 2) <=>
                /\ by_gate
                /\ result.classification = "Human"
          /\ (by_gate /\ result.classification = "AI-Generated") =>
                result.confidence = Min(900, 700 + 100 * ai)
          /\ (by_gate /\ result.classification = "Human") =>
                result.confidence = Min(900, 700 + 100 * hu)
          /\ ~by_gate => cpc = "Inference" \/ infer_calls = 1
          /\ (j = Num(2) /\ s = Num(10) /\ h = Num(300)) =>
                /\ result.classification = "AI-Generated"
                /\ result.confidence = 900

C20_Witness ==
    /\ cpc = "Done"
    /\ features.jitter_local = Num(2)
    /\ features.shimmer_local = Num(10)
    /\ features.hnr = Num(300)
    /\ result.classification = "AI-Generated"
    /\ result.confidence = 900
    /\ result.model_version = "v1.2-acoustic-gate"

\* the number of conditions of a set that hold
Count(conds) == Cardinality({i \in DOMAIN conds : conds[i]})

\* C21: for a clip within the duration ceiling the fast gate returns Human
\* whenever the Human rule holds, and AI only when the Human rule does not
\* hold and the AI rule does; the confidence of a verdict is
\* min(0.90, 0.75 + 0.05 * k), k being how many of the three stricter
\* conditions of the rule that fired hold.  ZCR 0.2, silence ratio 0.1,
\* RMS variance 0.01 and duration 2 s give Human with confidence >= 0.85.
C21_FastGateConfidence ==
    LET f == req.fast.f
        k_human == Count(<<Gt(f.zcr, 50), Gt(f.rms_variance, 50),
                           Lt(f.silence_ratio, 30)>>)
        k_ai == Count(<<Lt(f.rms_variance, 2), Lt(f.zcr, 10),
                        Lt(f.silence_ratio, 10)>>)
    IN  (cpc # "FastGate" /\ f.duration <= DURATION_MAX) =>
          /\ is_likely_human(f) =>
                gate_result = Verdict(TRUE, Min(900, 750 + 50 * k_human), f)
          /\ (~is_likely_human(f) /\ is_likely_ai(f)) =>
                gate_result = Verdict(FALSE, Min(900, 750 + 50 * k_ai), f)
          /\ (~is_likely_human(f) /\ ~is_likely_ai(f)) =>
                gate_result = NoVerdict
          /\ f = FastFeatures(20, Num(100), Num(200), Num(10)) =>
                gate_result.is_human /\ gate_result.confidence >= 850

C21_Witness ==
    /\ cpc = "Done"
    /\ req.fast.f = FastFeatures(20, Num(100), Num(200), Num(10))
    /\ gate_result.kind = "verdict"
    /\ gate_result.is_human
    /\ gate_result.confidence = 900

\* C22: for a clip longer than DURATION_MAX the fast gate returns no verdict
\* whatever the other features are, and detect_voice goes on to the feature
\* extraction.
C22_DurationCeiling ==
    (cpc # "FastGate" /\ req.fast.kind = "features"
        /\ req.fast.f.duration > DURATION_MAX) =>
          /\ gate_result = NoVerdict
          /\ result = NoResult
          /\ cpc = "FeatureExtraction"

C22_Witness ==
    /\ cpc = "FeatureExtraction"
    /\ req.fast.f.duration = 51
    /\ is_likely_human(req.fast.f)
    /\ gate_result = NoVerdict

\* C23: is_model_loaded() is true only when part2 was imported and its model
\* and calibrator are both present, so /ready answers 200 only then; the
\* flag stays false when part2 failed to import or to load.
C23_ReadinessFlag ==
    /\ MODEL_LOADED => (backend /\ _MODEL /\ _CALIBRATOR)
    /\ probe = 200 => (backend /\ _MODEL /\ _CALIBRATOR)

\* C24: fast_gate_hint is None throughout detect_voice, every call of
\* _create_fallback_response gets the hint None, and a result of the fallback
\* is never the hint branch's (AI-Generated, 0.65): it is AI-Generated exactly
\* when the fallback's ai_score >= 2 and human_score = 0, and Human otherwise.
C24_HintNeverSet ==
    LET j == fb_jitter(fb_call.features)
        s == fb_shimmer(fb_call.features)
        h == fb_hnr(fb_call.features)
        ai == fb_ai_score(j, s, h)
        hu == fb_human_score(j, s, h)
    IN  /\ fast_gate_hint = "None"
        /\ fb_call.made => fb_call.hint = "None"
        /\ FallbackReturned =>
              /\ result.explanation.template # "fallback_hint_ai"
              /\ ~(result.classification = "AI-Generated"
                    /\ result.confidence = 650)
              /\ result.classification = "AI-Generated" <=> (ai >= 2 /\ hu = 0)
              /\ result.classification = "Human" <=> ~(ai >= 2 /\ hu = 0)

C24_Witness ==
    /\ FallbackReturned
    /\ gate_result.kind = "none"
    /\ req.fast.kind = "features"
    /\ fb_call.features.kind = "bundle"
    /\ fb_call.hint = "None"
    /\ result.classification = "AI-Generated"
    /\ result.confidence = 850

\* C25: for every jitter, shimmer and HNR the post-extraction gate scores,
\* ai_score and human_score are integers in [0, 3], their sum is at most 3,
\* and they are never both >= 2.
C25_ScoresBounded ==
    LET j == post_jitter(features)
        s == post_shimmer(features)
        h == post_hnr(features)
        ai == post_ai_score(j, s, h)
        hu == post_human_score(j, s, h)
    IN  (features.kind = "bundle" /\ Rank(cpc) > 3
            /\ Comparable(j) /\ Comparable(s) /\ Comparable(h)) =>
          /\ ai \in 0..3
          /\ hu \in 0..3
          /\ ai + hu <= 3
          /\ ~(ai >= 2 /\ hu >= 2)

C25_Witness ==
    /\ features.kind = "bundle"
    /\ Rank(cpc) > 3
    /\ post_jitter(features) = Num(2)
    /\ post_shimmer(features) = Num(10)
    /\ post_hnr(features) = Num(200)
    /\ post_ai_score(Num(2), Num(10), Num(200)) = 2
    /\ post_human_score(Num(2), Num(10), Num(200)) = 1

\* the samples that are not exactly zero, in their order
RECURSIVE NonZero(_)
NonZero(xs) ==
    IF xs = <<>> THEN <<>>
    ELSE IF xs[1] = 0 THEN NonZero(Tail(xs))
    ELSE <<xs[1]>> \o NonZero(Tail(xs))

\* the sign changes of an array: a positive sample followed by a negative
\* one or the reverse, directly or with exact zeros between the two
SignChanges(xs) ==
    LET nz == NonZero(xs) IN
    Cardinality({i \in 1..(Len(nz) - 1) : sign(nz[i]) # sign(nz[i + 1])})

\* C26: for a non-empty array the zcr compute_features_fast returns is the
\* number of sign changes divided by the number of samples, a passage
\* through exact zeros from one sign to the other being one change, and a
\* touch of zero with a return to the same sign, or a zero at the end, none.
C26_ZeroCrossingRate ==
    fast_features.kind = "features" =>
        SameQuotient(fast_features.zcr,
                     Quotient(SignChanges(samples), Len(samples)))

=============================================================================
